---- MODULE Spec2Model ----
(***************************************************************************)
(* A model of ll_stack (src/src/lib.rs): GenericStack<T>, a stack kept in  *)
(* a singly linked chain of boxed nodes, and its three iterators.          *)
(*                                                                         *)
(* Every Box<Node<T>> is a cell of `heap`, named by a node id; a Link<T>   *)
(* is a node id or None.  An Option<T> handed to the caller is the empty   *)
(* sequence (None) or a one-element sequence (Some(v)).  The clients are   *)
(* programs the borrow checker accepts: they own up to two stack variables *)
(* and at most one iterator at a time.                                     *)
(***************************************************************************)
EXTENDS Integers, Sequences, FiniteSets, TLC

\* ------------------------------------------------------------------ bounds
MaxVal == 2       \* element values are 1..MaxVal
MaxLen == 3       \* push is not called on a chain of MaxLen nodes
MaxIdle == 2      \* next() is not called on an iterator that has returned None MaxIdle times

Values == 1..MaxVal
Stacks == {"A", "B"}
\* The cells: one arena of MaxLen cells for each of the two chains that can be
\* alive at a time.
NodeIds == 1..(2 * MaxLen)
ArenaOf(n) == (n - 1) \div MaxLen
ArenaIds(a) == (a * MaxLen + 1)..((a + 1) * MaxLen)

\* ------------------------------------------------------------- data model
\* Link<T> = Option<Box<Node<T>>>: None is 0, Some(box) is the box's node id.
None == 0
\* Option<T> as returned to the caller.
NoneOpt == << >>
Some(v) == << v >>

VARIABLES
    heap,       \* the allocated boxes: node id -> [element, next]
    live,       \* the stack variables that hold a GenericStack
    head,       \* head[s]: the field `head` of stack s (None when s holds no stack)
    intoIter,   \* the IntoIter, if any: << >> or << [s, head, src, log] >>
    iterv,      \* the Iter, if any: << >> or << [s, next, log] >>
    iterMut,    \* the IterMut, if any: << >> or << [s, next, log] >>
    last,       \* the last call: [op, s, arg, ret]
    ref,        \* ref[s]: the reference sequence of stack s, top first
    net,        \* net[s]: elements pushed on s minus elements popped from s
    pushLog,    \* the values pushed by the push-then-pop driver, in order
    popLog,     \* the results of the driver's pops, in order
    runs,       \* the counts of the counting driver's full runs of iter(), in order
    pops        \* the counting driver's successful pops on the clone

vars == << heap, live, head, intoIter, iterv, iterMut, last,
           ref, net, pushLog, popLog, runs, pops >>

ghost == << ref, net >>
lifo == << pushLog, popLog >>
counter == << runs, pops >>
driver == << lifo, counter >>

\* ---------------------------------------------------------------- helpers
Lowest(S) == CHOOSE n \in S : \A m \in S : n <= m

\* Box::new: a fresh cell.  The allocator serves a box that will point to cell
\* `near` from that cell's arena, and a box that points to nothing from an
\* arena with no cell in use; the lowest free cell is taken.
Alloc(h, near) ==
    LET free == NodeIds \ DOMAIN h
        same == free \cap ArenaIds(ArenaOf(near))
        idle == {n \in free : ArenaIds(ArenaOf(n)) \subseteq free}
    IN  IF near # None /\ same # {} THEN Lowest(same)
        ELSE IF idle # {} THEN Lowest(idle)
        ELSE Lowest(free)

\* Deallocation of the cells in `ns`.
Free(h, ns) == [n \in DOMAIN h \ ns |-> h[n]]

\* The elements met by following `next` from hd, top first: what iter() yields.
RECURSIVE Elems(_, _)
Elems(h, hd) == IF hd = None THEN << >>
                ELSE << h[hd].element >> \o Elems(h, h[hd].next)

\* The cells of the chain that starts at hd.
RECURSIVE Chain(_, _)
Chain(h, hd) == IF hd = None THEN {} ELSE {hd} \cup Chain(h, h[hd].next)

\* ------------------------------------------------- GenericStack operations
\* Each operation is a function of the heap and the stack's `head` field and
\* gives the heap and the field after the call, and what the call returns.

\* The drop glue of GenericStack: the head box is dropped, which drops its
\* node, which drops the node's `next`, and so on down the chain.
RECURSIVE drop_(_, _)
drop_(h, hd) == IF hd = None THEN h ELSE Free(drop_(h, h[hd].next), {hd})

\* The nesting depth of that drop glue: no Drop is implemented for
\* GenericStack or Node, so dropping a box calls the drop of its node's `next`
\* before it returns and frees the box: one nested call for every node.
RECURSIVE drop_depth_(_, _)
drop_depth_(h, hd) == IF hd = None THEN 0 ELSE 1 + drop_depth_(h, h[hd].next)

\* Mutant of push_: the new node's `next` is None instead of the old head, so
\* the old chain is dropped.
push_loses_chain(h, hd, element) ==
    LET rest == drop_(h, hd)
        new_node == Alloc(rest, None)
    IN  [heap |-> (new_node :> [element |-> element, next |-> None]) @@ rest,
         head |-> new_node]

\* Mutant of push_: the new node is linked behind the old top instead of in
\* front of it.
push_behind_top(h, hd, element) ==
    LET new_node == Alloc(h, hd)
    IN  IF hd = None
        THEN [heap |-> (new_node :> [element |-> element, next |-> None]) @@ h,
              head |-> new_node]
        ELSE [heap |-> (new_node :> [element |-> element, next |-> h[hd].next])
                       @@ [h EXCEPT ![hd].next = new_node],
              head |-> hd]

\* GenericStack::push: a new box holds `element`, its `next` is what
\* self.head.take() gave; self.head is the new box.
push_(h, hd, element) ==
    LET new_node == Alloc(h, hd)
    IN  [heap |-> (new_node :> [element |-> element, next |-> hd]) @@ h,
         head |-> new_node]

\* Mutant of pop_: `self.head = node.next` is forgotten, so the head stays None
\* after take() and the rest of the chain is dropped with the node.
pop_forgets_next(h, hd) ==
    IF hd = None
    THEN [heap |-> h, head |-> None, ret |-> NoneOpt]
    ELSE [heap |-> drop_(h, hd), head |-> None, ret |-> Some(h[hd].element)]

\* Mutant of pop_: the node is unlinked and released but None is returned.
pop_returns_none(h, hd) ==
    IF hd = None
    THEN [heap |-> h, head |-> None, ret |-> NoneOpt]
    ELSE [heap |-> Free(h, {hd}), head |-> h[hd].next, ret |-> NoneOpt]

\* Mutant of pop_: the head becomes the `next` of the node below the top, so
\* two nodes are unlinked and the element of the top one is returned.
pop_unlinks_two(h, hd) ==
    IF hd = None
    THEN [heap |-> h, head |-> None, ret |-> NoneOpt]
    ELSE LET below == h[hd].next
         IN  IF below = None
             THEN [heap |-> Free(h, {hd}), head |-> None, ret |-> Some(h[hd].element)]
             ELSE [heap |-> Free(h, {hd, below}), head |-> h[below].next,
                   ret |-> Some(h[hd].element)]

\* GenericStack::pop: self.head.take() leaves None; on Some(node) the head
\* becomes node.next, node.element is returned and the box is released.
pop_(h, hd) ==
    IF hd = None
    THEN [heap |-> h, head |-> None, ret |-> NoneOpt]
    ELSE [heap |-> Free(h, {hd}), head |-> h[hd].next, ret |-> Some(h[hd].element)]

\* Mutant of peek_: an empty stack answers with a default value.
peek_default(h, hd) ==
    [heap |-> h, head |-> hd,
     ret |-> IF hd = None THEN Some(0) ELSE Some(h[hd].element)]

\* Mutant of peek_: take() instead of as_ref(): the head is left None and the
\* chain is dropped once the reference is gone.
peek_takes(h, hd) ==
    [heap |-> drop_(h, hd), head |-> None,
     ret |-> IF hd = None THEN NoneOpt ELSE Some(h[hd].element)]

\* Mutant of peek_mut_: the reference designates the element of the node
\* below the top, when there is one.
peek_mut_below(h, hd) ==
    [heap |-> h, head |-> hd,
     ret |-> IF hd = None THEN NoneOpt
             ELSE IF h[hd].next = None THEN Some(hd) ELSE Some(h[hd].next)]

\* GenericStack::peek: self.head.as_ref() leaves the head in place; on
\* Some(node) a reference to node.element is returned (its value is given).
peek_(h, hd) ==
    [heap |-> h, head |-> hd,
     ret |-> IF hd = None THEN NoneOpt ELSE Some(h[hd].element)]

\* GenericStack::peek_mut: self.head.as_mut() leaves the head in place; on
\* Some(node) a mutable reference to node.element is returned (the cell whose
\* element it designates is given).
peek_mut_(h, hd) ==
    [heap |-> h, head |-> hd,
     ret |-> IF hd = None THEN NoneOpt ELSE Some(hd)]

\* A write of w through a &mut T that designates the element of cell n.
Write(h, n, w) == [h EXCEPT ![n].element = w]

\* Mutant of clone_: the clone's head is the same box (a shallow copy).
clone_shallow(h, hd) == [heap |-> h, head |-> hd]

\* Mutant of clone_: only the top node is cloned; the clone's `next` is None.
clone_truncates(h, hd) ==
    IF hd = None
    THEN [heap |-> h, head |-> None]
    ELSE LET box == Alloc(h, None)
         IN  [heap |-> (box :> [element |-> h[hd].element, next |-> None]) @@ h,
              head |-> box]

\* Mutant of clone_: the top node is cloned, but the clone's `next` is the
\* original's `next`: the nodes below the top are shared.
clone_shares_tail(h, hd) ==
    IF hd = None
    THEN [heap |-> h, head |-> None]
    ELSE LET box == Alloc(h, None)
         IN  [heap |-> (box :> [element |-> h[hd].element, next |-> h[hd].next]) @@ h,
              head |-> box]

\* #[derive(Clone)] on GenericStack and Node: a Some(box) is cloned into a new
\* box that holds the clone of the element and the clone of `next`.
RECURSIVE clone_(_, _)
clone_(h, hd) ==
    IF hd = None
    THEN [heap |-> h, head |-> None]
    ELSE LET rest == clone_(h, h[hd].next)
             box  == Alloc(rest.heap, rest.head)
         IN  [heap |-> (box :> [element |-> h[hd].element, next |-> rest.head])
                       @@ rest.heap,
              head |-> box]

\* Mutant of eq_: only the top elements are compared.
eq_top_only(h, a, b) ==
    IF a = None \/ b = None
    THEN a = None /\ b = None
    ELSE h[a].element = h[b].element

\* #[derive(PartialEq)] on GenericStack and Node: two links are equal when both
\* are None, or both are Some and the nodes agree on `element` and on `next`.
RECURSIVE eq_(_, _, _)
eq_(h, a, b) ==
    IF a = None \/ b = None
    THEN a = None /\ b = None
    ELSE h[a].element = h[b].element /\ eq_(h, h[a].next, h[b].next)

\* Mutant of Iter_next_: the cursor advances by two nodes, so every second
\* element is passed over.
Iter_next_skips(h, cursor) ==
    IF cursor = None
    THEN [next |-> None, ret |-> NoneOpt]
    ELSE [next |-> IF h[cursor].next = None THEN None ELSE h[h[cursor].next].next,
          ret |-> Some(cursor)]

\* Mutant of Iter_next_: at the last node the cursor is left where it is, so
\* the iterator is never exhausted.
Iter_next_stays(h, cursor) ==
    IF cursor = None
    THEN [next |-> None, ret |-> NoneOpt]
    ELSE [next |-> IF h[cursor].next = None THEN cursor ELSE h[cursor].next,
          ret |-> Some(cursor)]

\* Iter::next: on Some(node) the cursor becomes node.next.as_deref() and a
\* reference to the node's element is yielded (the cell is named).
Iter_next_(h, cursor) ==
    IF cursor = None
    THEN [next |-> None, ret |-> NoneOpt]
    ELSE [next |-> h[cursor].next, ret |-> Some(cursor)]

\* Mutant of iter_mut_: take() in place of as_deref_mut(): the chain is moved
\* out of the stack when the iterator is made.
iter_mut_takes(h, hd) == [heap |-> h, head |-> None, next |-> hd]

\* GenericStack::iter_mut: the cursor is self.head.as_deref_mut(); the head and
\* the heap are left as they are.
iter_mut_(h, hd) == [heap |-> h, head |-> hd, next |-> hd]

\* Mutant of IterMut_next_: the cursor advances by two nodes.
IterMut_next_skips(h, cursor) ==
    IF cursor = None
    THEN [next |-> None, ret |-> NoneOpt]
    ELSE [next |-> IF h[cursor].next = None THEN None ELSE h[h[cursor].next].next,
          ret |-> Some(cursor)]

\* Mutant of IterMut_next_: the cursor is read without take() and is not
\* moved on, so it keeps its hold on the node whose element is handed out.
IterMut_next_holds(h, cursor) ==
    IF cursor = None
    THEN [next |-> None, ret |-> NoneOpt, mid |-> None]
    ELSE [next |-> cursor, ret |-> Some(cursor), mid |-> cursor]

\* IterMut::next: self.next.take() leaves None in the cursor; on Some(node)
\* the cursor becomes node.next.as_deref_mut() and a mutable reference to the
\* node's element is yielded (the cell is named).  `mid` is the cursor between
\* the take() and the assignment in the closure.
IterMut_next_(h, cursor) ==
    LET taken == cursor
        emptied == None
    IN  IF taken = None
        THEN [next |-> emptied, ret |-> NoneOpt, mid |-> emptied]
        ELSE [next |-> h[taken].next, ret |-> Some(taken), mid |-> emptied]

\* Mutant of IntoIter_next_: the top is yielded without being removed.
IntoIter_next_peeks(h, hd) == peek_(h, hd)

\* IntoIter::next: self.0.pop().
IntoIter_next_(h, hd) == pop_(h, hd)

\* The Display of an element: the elements are integers, written in decimal.
Display_(v) == ToString(v)

\* Mutant of fmt_loop: only the top element is written (peek() in place of the
\* loop over iter()).
fmt_loop_top_only(h, cursor, out) ==
    IF cursor = None THEN out ELSE out \o "->" \o Display_(h[cursor].element)

\* The loop of Display::fmt: `for v in self.iter() { write!(f, "->{v}")?; }`,
\* with `out` what the formatter has received so far.
RECURSIVE fmt_loop(_, _, _)
fmt_loop(h, cursor, out) ==
    LET r == Iter_next_(h, cursor)
    IN  IF r.ret = NoneOpt THEN out
        ELSE fmt_loop(h, r.next, out \o "->" \o Display_(h[r.ret[1]].element))

\* Display::fmt for GenericStack: "head", the loop, then "."; the text the
\* formatter has received when fmt returns Ok(()).
fmt_(h, hd) == fmt_loop(h, hd, "head") \o "."

\* ------------------------------------------------------ the borrow checker
\* What the client may call while an iterator borrows a stack.
SharedBy(s) == iterv # << >> /\ iterv[1].s = s
MutBy(s)    == iterMut # << >> /\ iterMut[1].s = s
CanRead(s)  == s \in live /\ ~MutBy(s)
CanWrite(s) == s \in live /\ ~MutBy(s) /\ ~SharedBy(s)
\* A variable whose stack was moved into the IntoIter is not assigned again
\* while the IntoIter is alive.
MovedBy(s)  == intoIter # << >> /\ intoIter[1].s = s
CanInit(s)  == s \notin live /\ ~MovedBy(s)

Call(op, s, arg, ret) == [op |-> op, s |-> s, arg |-> arg, ret |-> ret]

\* At most one iterator is alive at a time.
NoIterator == intoIter = << >> /\ iterv = << >> /\ iterMut = << >>

\* How often an iterator with this log has returned None.
Idle(log) == Len(SelectSeq(log, LAMBDA r : r = NoneOpt))

\* ------------------------------------------------------------------- Init
\* The client holds no stack and no iterator yet.
Init ==
    /\ heap = << >>
    /\ live = {}
    /\ head = [s \in Stacks |-> None]
    /\ intoIter = << >>
    /\ iterv = << >>
    /\ iterMut = << >>
    /\ last = Call("start", "A", 0, NoneOpt)
    /\ ref = [s \in Stacks |-> << >>]
    /\ net = [s \in Stacks |-> 0]
    /\ pushLog = << >>
    /\ popLog = << >>
    /\ runs = << >>
    /\ pops = 0

\* The ghost state of s is that of a variable that holds no stack.
Forget(s) ==
    /\ ref' = [ref EXCEPT ![s] = << >>]
    /\ net' = [net EXCEPT ![s] = 0]

\* ------------------------------------------------------ the client's calls
\* let mut s = GenericStack::new();
New(s) ==
    /\ CanInit(s)
    /\ live' = live \cup {s}
    /\ head' = [head EXCEPT ![s] = None]
    /\ last' = Call("new", s, 0, NoneOpt)
    /\ Forget(s)
    /\ UNCHANGED << heap, intoIter, iterv, iterMut >>

\* s.push(x);
Push(s, x) ==
    /\ CanWrite(s)
    /\ Cardinality(Chain(heap, head[s])) < MaxLen
    /\ LET r == push_(heap, head[s], x)
       IN  /\ heap' = r.heap
           /\ head' = [head EXCEPT ![s] = r.head]
    /\ last' = Call("push", s, x, NoneOpt)
    /\ ref' = [ref EXCEPT ![s] = << x >> \o @]
    /\ net' = [net EXCEPT ![s] = @ + 1]
    /\ UNCHANGED << live, intoIter, iterv, iterMut >>

\* s.pop()
Pop(s) ==
    /\ CanWrite(s)
    /\ LET r == pop_(heap, head[s])
       IN  /\ heap' = r.heap
           /\ head' = [head EXCEPT ![s] = r.head]
           /\ last' = Call("pop", s, 0, r.ret)
           /\ net' = [net EXCEPT ![s] = IF r.ret = NoneOpt THEN @ ELSE @ - 1]
    /\ ref' = [ref EXCEPT ![s] = IF @ = << >> THEN @ ELSE Tail(@)]
    /\ UNCHANGED << live, intoIter, iterv, iterMut >>

\* s.peek()
Peek(s) ==
    /\ CanRead(s)
    /\ LET r == peek_(heap, head[s])
       IN  /\ heap' = r.heap
           /\ head' = [head EXCEPT ![s] = r.head]
           /\ last' = Call("peek", s, 0, r.ret)
    /\ UNCHANGED << live, intoIter, iterv, iterMut >>
    /\ UNCHANGED ghost

\* if let Some(value) = s.peek_mut() { *value = w; }
PeekMut(s, w) ==
    /\ CanWrite(s)
    /\ LET r == peek_mut_(heap, head[s])
       IN  /\ heap' = IF r.ret = NoneOpt THEN r.heap ELSE Write(r.heap, r.ret[1], w)
           /\ head' = [head EXCEPT ![s] = r.head]
           /\ last' = Call("peek_mut", s, w, r.ret)
    /\ ref' = [ref EXCEPT ![s] = IF @ = << >> THEN @ ELSE [@ EXCEPT ![1] = w]]
    /\ UNCHANGED << live, intoIter, iterv, iterMut, net >>

\* let t = s.clone();
Clone(s, t) ==
    /\ CanRead(s)
    /\ CanInit(t)
    /\ LET r == clone_(heap, head[s])
       IN  /\ heap' = r.heap
           /\ head' = [head EXCEPT ![t] = r.head]
    /\ live' = live \cup {t}
    /\ last' = Call("clone", s, 0, NoneOpt)
    /\ ref' = [ref EXCEPT ![t] = ref[s]]
    /\ net' = [net EXCEPT ![t] = net[s]]
    /\ UNCHANGED << intoIter, iterv, iterMut >>

\* s == t
Eq(s, t) ==
    /\ CanRead(s)
    /\ CanRead(t)
    /\ last' = Call("eq", s, t, << eq_(heap, head[s], head[t]) >>)
    /\ UNCHANGED << heap, live, head, intoIter, iterv, iterMut >>
    /\ UNCHANGED ghost

\* s goes out of scope: the stack and its chain are dropped.
Drop(s) ==
    /\ CanWrite(s)
    /\ heap' = drop_(heap, head[s])
    /\ live' = live \ {s}
    /\ head' = [head EXCEPT ![s] = None]
    /\ last' = Call("drop", s, 0, NoneOpt)
    /\ Forget(s)
    /\ UNCHANGED << intoIter, iterv, iterMut >>

\* let it = s.into_iter();    s is moved into the IntoIter
IntoIterNew(s) ==
    /\ CanWrite(s)
    /\ NoIterator
    /\ intoIter' = << [s |-> s, head |-> head[s], src |-> ref[s], log |-> << >>] >>
    /\ live' = live \ {s}
    /\ head' = [head EXCEPT ![s] = None]
    /\ last' = Call("into_iter", s, 0, NoneOpt)
    /\ Forget(s)
    /\ UNCHANGED << heap, iterv, iterMut >>

\* it.next() on the IntoIter
IntoIterNext ==
    /\ intoIter # << >>
    /\ Idle(intoIter[1].log) < MaxIdle
    /\ LET r == IntoIter_next_(heap, intoIter[1].head)
       IN  /\ heap' = r.heap
           /\ intoIter' = << [intoIter[1] EXCEPT !.head = r.head,
                                                !.log = Append(@, r.ret)] >>
           /\ last' = Call("IntoIter::next", intoIter[1].s, 0, r.ret)
    /\ UNCHANGED << live, head, iterv, iterMut >>
    /\ UNCHANGED ghost

\* the IntoIter goes out of scope: the stack it owns is dropped
IntoIterDrop ==
    /\ intoIter # << >>
    /\ heap' = drop_(heap, intoIter[1].head)
    /\ intoIter' = << >>
    /\ last' = Call("IntoIter::drop", intoIter[1].s, 0, NoneOpt)
    /\ UNCHANGED << live, head, iterv, iterMut >>
    /\ UNCHANGED ghost

\* let it = s.iter();
IterNew(s) ==
    /\ CanRead(s)
    /\ NoIterator
    /\ iterv' = << [s |-> s, next |-> head[s], log |-> << >>] >>
    /\ last' = Call("iter", s, 0, NoneOpt)
    /\ UNCHANGED << heap, live, head, intoIter, iterMut >>
    /\ UNCHANGED ghost

\* it.next() on the Iter
IterNext ==
    /\ iterv # << >>
    /\ Idle(iterv[1].log) < MaxIdle
    /\ LET r == Iter_next_(heap, iterv[1].next)
       IN  /\ iterv' = << [iterv[1] EXCEPT !.next = r.next, !.log = Append(@, r.ret)] >>
           /\ last' = Call("Iter::next", iterv[1].s, 0, r.ret)
    /\ UNCHANGED << heap, live, head, intoIter, iterMut >>
    /\ UNCHANGED ghost

\* the Iter goes out of scope: the shared borrow of the stack ends
IterDrop ==
    /\ iterv # << >>
    /\ iterv' = << >>
    /\ last' = Call("Iter::drop", iterv[1].s, 0, NoneOpt)
    /\ UNCHANGED << heap, live, head, intoIter, iterMut >>
    /\ UNCHANGED ghost

\* let it = s.iter_mut();
IterMutNew(s) ==
    /\ CanWrite(s)
    /\ NoIterator
    /\ LET r == iter_mut_(heap, head[s])
       IN  /\ heap' = r.heap
           /\ head' = [head EXCEPT ![s] = r.head]
           /\ iterMut' = << [s |-> s, next |-> r.next, log |-> << >>] >>
    /\ last' = Call("iter_mut", s, 0, NoneOpt)
    /\ UNCHANGED << live, intoIter, iterv >>
    /\ UNCHANGED ghost

\* it.next() on the IterMut
IterMutNext ==
    /\ iterMut # << >>
    /\ Idle(iterMut[1].log) < MaxIdle
    /\ LET r == IterMut_next_(heap, iterMut[1].next)
       IN  /\ iterMut' = << [iterMut[1] EXCEPT !.next = r.next, !.log = Append(@, r.ret)] >>
           /\ last' = Call("IterMut::next", iterMut[1].s, 0, r.ret)
    /\ UNCHANGED << heap, live, head, intoIter, iterv >>
    /\ UNCHANGED ghost

\* *v = w; through the k-th reference the IterMut has yielded
IterMutWrite(k, w) ==
    /\ iterMut # << >>
    /\ k \in 1..Len(iterMut[1].log)
    /\ iterMut[1].log[k] # NoneOpt
    /\ LET s == iterMut[1].s
       IN  /\ heap' = Write(heap, iterMut[1].log[k][1], w)
           /\ last' = Call("IterMut::write", s, w, iterMut[1].log[k])
           /\ ref' = [ref EXCEPT ![s] = [@ EXCEPT ![k] = w]]
    /\ UNCHANGED << live, head, intoIter, iterv, iterMut, net >>

\* the IterMut goes out of scope: the mutable borrow of the stack ends
IterMutDrop ==
    /\ iterMut # << >>
    /\ iterMut' = << >>
    /\ last' = Call("IterMut::drop", iterMut[1].s, 0, NoneOpt)
    /\ UNCHANGED << heap, live, head, intoIter, iterv >>
    /\ UNCHANGED ghost

\* format!("{}", s): s is rendered through a shared reference
Fmt(s) ==
    /\ CanRead(s)
    /\ last' = Call("fmt", s, 0, << fmt_(heap, head[s]) >>)
    /\ UNCHANGED << heap, live, head, intoIter, iterv, iterMut >>
    /\ UNCHANGED ghost

\* let m = s.iter_mut().map(|value| *value = w);   the adaptor holds the
\* IterMut and the closure; `src` keeps the elements s had when m was made.
MapNew(s, w) ==
    /\ CanWrite(s)
    /\ NoIterator
    /\ LET r == iter_mut_(heap, head[s])
       IN  /\ heap' = r.heap
           /\ head' = [head EXCEPT ![s] = r.head]
           /\ iterMut' = << [s |-> s, next |-> r.next, log |-> << >>,
                             f |-> w, src |-> Elems(heap, head[s])] >>
    /\ last' = Call("iter_mut().map", s, w, NoneOpt)
    /\ UNCHANGED << live, intoIter, iterv >>
    /\ UNCHANGED ghost

\* m.next(): self.iter.next().map(&mut self.f), the closure is applied to the
\* reference that IterMut::next yields.
MapNext ==
    /\ iterMut # << >>
    /\ Idle(iterMut[1].log) < MaxIdle
    /\ LET it == iterMut[1]
           r == IterMut_next_(heap, it.next)
           k == Len(it.log) + 1
       IN  /\ heap' = IF r.ret = NoneOpt THEN heap ELSE Write(heap, r.ret[1], it.f)
           /\ iterMut' = << [it EXCEPT !.next = r.next, !.log = Append(@, r.ret)] >>
           /\ last' = Call("Map::next", it.s, it.f, r.ret)
           /\ ref' = [ref EXCEPT ![it.s] =
                         IF r.ret = NoneOpt THEN @ ELSE [@ EXCEPT ![k] = it.f]]
    /\ UNCHANGED << live, head, intoIter, iterv, net >>

\* m goes out of scope (at once, when the statement is `s.iter_mut().map(f);`);
\* the call record tells how many elements m had yielded.
MapDrop ==
    /\ iterMut # << >>
    /\ iterMut' = << >>
    /\ last' = Call("Map::drop", iterMut[1].s,
                    Len(iterMut[1].log) - Idle(iterMut[1].log), NoneOpt)
    /\ UNCHANGED << heap, live, head, intoIter, iterv >>
    /\ UNCHANGED ghost

\* ------------------------------------------------------------------- Next
\* A client with one stack variable: any program the borrow checker accepts
\* that creates, uses, iterates over and drops a stack.
Solo == {"A"}

Next ==
    \/ \E s \in Solo : New(s) /\ UNCHANGED driver
    \/ \E s \in Solo, x \in Values : Push(s, x) /\ UNCHANGED driver
    \/ \E s \in Solo : Pop(s) /\ UNCHANGED driver
    \/ \E s \in Solo : Peek(s) /\ UNCHANGED driver
    \/ \E s \in Solo, w \in Values : PeekMut(s, w) /\ UNCHANGED driver
    \/ \E s \in Solo : Drop(s) /\ UNCHANGED driver
    \/ \E s \in Solo : IntoIterNew(s) /\ UNCHANGED driver
    \/ IntoIterNext /\ UNCHANGED driver
    \/ IntoIterDrop /\ UNCHANGED driver
    \/ \E s \in Solo : IterNew(s) /\ UNCHANGED driver
    \/ IterNext /\ UNCHANGED driver
    \/ IterDrop /\ UNCHANGED driver
    \/ \E s \in Solo : IterMutNew(s) /\ UNCHANGED driver
    \/ IterMutNext /\ UNCHANGED driver
    \/ \E k \in 1..MaxLen, w \in Values : IterMutWrite(k, w) /\ UNCHANGED driver
    \/ IterMutDrop /\ UNCHANGED driver

Spec == Init /\ [][Next]_vars

\* A client that clones: it creates a stack in its first variable when it
\* holds none, so a second stack is always a clone; both are changed (by push,
\* pop and writes through peek_mut and iter_mut) and dropped in any order.
\* An IterMut is used as by `for v in s.iter_mut() { *v = w; }`: it is stepped
\* until it returns None, the loop body may write through the reference just
\* yielded, and nothing else is called until the loop is left.
InLoop == iterMut # << >>
LoopRef == Len(iterMut[1].log)

NextClone ==
    \/ \E s \in Solo : live = {} /\ New(s) /\ UNCHANGED driver
    \/ \E s \in Stacks, x \in Values : ~InLoop /\ Push(s, x) /\ UNCHANGED driver
    \/ \E s \in Stacks : ~InLoop /\ Pop(s) /\ UNCHANGED driver
    \/ \E s \in Stacks, w \in Values : ~InLoop /\ PeekMut(s, w) /\ UNCHANGED driver
    \/ \E s \in Stacks, t \in Stacks : ~InLoop /\ Clone(s, t) /\ UNCHANGED driver
    \/ \E s \in Stacks : ~InLoop /\ Drop(s) /\ UNCHANGED driver
    \/ \E s \in Stacks : IterMutNew(s) /\ UNCHANGED driver
    \/ InLoop /\ Idle(iterMut[1].log) = 0 /\ IterMutNext /\ UNCHANGED driver
    \/ \E w \in Values : InLoop /\ IterMutWrite(LoopRef, w) /\ UNCHANGED driver
    \/ IterMutDrop /\ UNCHANGED driver

SpecClone == Init /\ [][NextClone]_vars

\* A client that owns two stacks and iterates: the first stack is created
\* when the client holds none, the second is a clone; both are changed and
\* dropped in any order, and each of the three iterators is made over the
\* first variable (which holds an original or, after a drop, a clone of the
\* second), stepped until it returns None (or dropped before) while nothing
\* else is called.
NextOwn ==
    \/ \E s \in Solo : live = {} /\ New(s) /\ UNCHANGED driver
    \/ \E s \in Stacks, x \in Values : NoIterator /\ Push(s, x) /\ UNCHANGED driver
    \/ \E s \in Stacks : NoIterator /\ Pop(s) /\ UNCHANGED driver
    \/ \E s \in Stacks, w \in Values : NoIterator /\ PeekMut(s, w) /\ UNCHANGED driver
    \/ \E s \in Stacks, t \in Stacks : NoIterator /\ Clone(s, t) /\ UNCHANGED driver
    \/ \E s \in Stacks : NoIterator /\ Drop(s) /\ UNCHANGED driver
    \/ \E s \in Solo : IntoIterNew(s) /\ UNCHANGED driver
    \/ intoIter # << >> /\ Idle(intoIter[1].log) = 0 /\ IntoIterNext /\ UNCHANGED driver
    \/ IntoIterDrop /\ UNCHANGED driver
    \/ \E s \in Solo : IterNew(s) /\ UNCHANGED driver
    \/ iterv # << >> /\ Idle(iterv[1].log) = 0 /\ IterNext /\ UNCHANGED driver
    \/ IterDrop /\ UNCHANGED driver
    \/ \E s \in Solo : IterMutNew(s) /\ UNCHANGED driver
    \/ InLoop /\ Idle(iterMut[1].log) = 0 /\ IterMutNext /\ UNCHANGED driver
    \/ IterMutDrop /\ UNCHANGED driver

SpecOwn == Init /\ [][NextOwn]_vars

\* A client that compares: two stacks are built independently of each other
\* by any pushes, pops and writes, and compared.
NextEq ==
    \/ \E s \in Stacks : New(s) /\ UNCHANGED driver
    \/ \E s \in Stacks, x \in Values : Push(s, x) /\ UNCHANGED driver
    \/ \E s \in Stacks : Pop(s) /\ UNCHANGED driver
    \/ \E s \in Stacks, w \in Values : PeekMut(s, w) /\ UNCHANGED driver
    \/ \E s \in Stacks, t \in Stacks : Eq(s, t) /\ UNCHANGED driver
    \/ \E s \in Stacks : Drop(s) /\ UNCHANGED driver

SpecEq == Init /\ [][NextEq]_vars

\* A client that renders: a stack of the values of the rendering example is
\* built by any pushes and pops and rendered at any time.
Shown == {2, 4, 6}

NextFmt ==
    \/ \E s \in Solo : New(s) /\ UNCHANGED driver
    \/ \E s \in Solo, x \in Shown : Push(s, x) /\ UNCHANGED driver
    \/ \E s \in Solo : Pop(s) /\ UNCHANGED driver
    \/ \E s \in Solo : Fmt(s) /\ UNCHANGED driver
    \/ \E s \in Solo : Drop(s) /\ UNCHANGED driver

SpecFmt == Init /\ [][NextFmt]_vars

\* A client that makes iterators and adaptors and steps them or not: any
\* stack is built; iter() and iter_mut().map(f) are made, stepped any number
\* of times (none included) and dropped.
NextLazy ==
    \/ \E s \in Solo : New(s) /\ UNCHANGED driver
    \/ \E s \in Solo, x \in Values : Push(s, x) /\ UNCHANGED driver
    \/ \E s \in Solo : Pop(s) /\ UNCHANGED driver
    \/ \E s \in Solo : IterNew(s) /\ UNCHANGED driver
    \/ IterNext /\ UNCHANGED driver
    \/ IterDrop /\ UNCHANGED driver
    \/ \E s \in Solo, w \in Values : MapNew(s, w) /\ UNCHANGED driver
    \/ MapNext /\ UNCHANGED driver
    \/ MapDrop /\ UNCHANGED driver

SpecLazy == Init /\ [][NextLazy]_vars

\* ------------------------------------------------ the push-then-pop driver
\* The client of test::basics, for every input: a stack is created, some
\* values are pushed, then the stack is popped at most as often as it was
\* pushed; the stack may be peeked at in between.  pushLog and popLog record
\* the values pushed and what the pops returned.
LifoNew(s) ==
    /\ live = {}
    /\ New(s)
    /\ pushLog' = << >>
    /\ popLog' = << >>
    /\ UNCHANGED counter

LifoPush(s, x) ==
    /\ popLog = << >>
    /\ Push(s, x)
    /\ pushLog' = Append(pushLog, x)
    /\ UNCHANGED << popLog, counter >>

LifoPop(s) ==
    /\ Len(popLog) < Len(pushLog)
    /\ Pop(s)
    /\ popLog' = Append(popLog, last'.ret)
    /\ UNCHANGED << pushLog, counter >>

LifoPeek(s) ==
    /\ Peek(s)
    /\ UNCHANGED driver

LifoDrop(s) ==
    /\ Drop(s)
    /\ pushLog' = << >>
    /\ popLog' = << >>
    /\ UNCHANGED counter

NextLifo ==
    \/ \E s \in Stacks : LifoNew(s)
    \/ \E s \in Stacks, x \in Values : LifoPush(s, x)
    \/ \E s \in Stacks : LifoPop(s)
    \/ \E s \in Stacks : LifoPeek(s)
    \/ \E s \in Stacks : LifoDrop(s)

SpecLifo == Init /\ [][NextLifo]_vars

\* ------------------------------------------------------ the counting driver
\* The client of test::examples that counts: a stack is built in "A"; then it
\* is left as it is, iter() is run in full (until the first None) up to twice
\* and the number of elements yielded is recorded in `runs`; "A" is cloned
\* into "B" and "B" is popped until a pop returns None, `pops` counting the
\* pops that returned an element.
Building == runs = << >> /\ "B" \notin live /\ NoIterator

CountNew ==
    /\ live = {}
    /\ New("A")
    /\ runs' = << >>
    /\ pops' = 0
    /\ UNCHANGED lifo

CountPush(x) ==
    /\ Building
    /\ Push("A", x)
    /\ UNCHANGED driver

CountPop ==
    /\ Building
    /\ Pop("A")
    /\ UNCHANGED driver

CountIterNew ==
    /\ Len(runs) < 2
    /\ IterNew("A")
    /\ UNCHANGED driver

CountIterNext ==
    /\ iterv # << >>
    /\ Idle(iterv[1].log) = 0
    /\ IterNext
    /\ UNCHANGED driver

CountIterDone ==
    /\ iterv # << >>
    /\ Idle(iterv[1].log) > 0
    /\ IterDrop
    /\ runs' = Append(runs, Len(iterv[1].log) - Idle(iterv[1].log))
    /\ UNCHANGED << lifo, pops >>

CountClone ==
    /\ NoIterator
    /\ Clone("A", "B")
    /\ pops' = 0
    /\ UNCHANGED << lifo, runs >>

CountClonePop ==
    /\ "B" \in live
    /\ ~(last.op = "pop" /\ last.s = "B" /\ last.ret = NoneOpt)
    /\ Pop("B")
    /\ pops' = IF last'.ret = NoneOpt THEN pops ELSE pops + 1
    /\ UNCHANGED << lifo, runs >>

NextCount ==
    \/ CountNew
    \/ \E x \in Values : CountPush(x)
    \/ CountPop
    \/ CountIterNew
    \/ CountIterNext
    \/ CountIterDone
    \/ CountClone
    \/ CountClonePop

SpecCount == Init /\ [][NextCount]_vars

\* -------------------------------------------------- the incrementing driver
\* The client of test::examples that iterates mutably: a stack is built in
\* "A" and cloned into "B"; `for v in &mut stack.iter_mut() { v.value += 1; }`
\* adds one to every element the loop visits; then the two stacks are
\* compared and the elements of "A" are counted by a run of iter().
IncrNew ==
    /\ live = {}
    /\ New("A")
    /\ UNCHANGED driver

IncrPush(x) ==
    /\ "B" \notin live
    /\ Push("A", x)
    /\ UNCHANGED driver

IncrPop ==
    /\ "B" \notin live
    /\ Pop("A")
    /\ UNCHANGED driver

IncrClone ==
    /\ Clone("A", "B")
    /\ UNCHANGED driver

IncrLoop ==
    /\ last.op = "clone"
    /\ IterMutNew("A")
    /\ UNCHANGED driver

IncrNext ==
    /\ last.op \in {"iter_mut", "IterMut::write"}
    /\ IterMutNext
    /\ UNCHANGED driver

IncrBody ==
    /\ last.op = "IterMut::next"
    /\ last.ret # NoneOpt
    /\ IterMutWrite(LoopRef, heap[last.ret[1]].element + 1)
    /\ UNCHANGED driver

IncrDone ==
    /\ last.op = "IterMut::next"
    /\ last.ret = NoneOpt
    /\ IterMutDrop
    /\ UNCHANGED driver

IncrEq ==
    /\ last.op = "IterMut::drop"
    /\ Eq("A", "B")
    /\ UNCHANGED driver

IncrCount ==
    /\ last.op = "eq"
    /\ IterNew("A")
    /\ UNCHANGED driver

IncrCountNext ==
    /\ iterv # << >>
    /\ Idle(iterv[1].log) = 0
    /\ IterNext
    /\ UNCHANGED driver

NextIncr ==
    \/ IncrNew
    \/ \E x \in Values : IncrPush(x)
    \/ IncrPop
    \/ IncrClone
    \/ IncrLoop
    \/ IncrNext
    \/ IncrBody
    \/ IncrDone
    \/ IncrEq
    \/ IncrCount
    \/ IncrCountNext

SpecIncr == Init /\ [][NextIncr]_vars

\* ================================================================== claims

\* C1 (LIFO law): after n pushes of v1..vn onto an empty stack, the pops
\* return Some(vn), Some(vn-1), ..., Some(v1) in that order: the i-th pop
\* returns the value of the i-th last push.
C1_Lifo ==
    \A i \in 1..Len(popLog) :
        /\ i <= Len(pushLog)
        /\ popLog[i] = Some(pushLog[Len(pushLog) + 1 - i])

\* C1 witness: MaxLen pushes, not all of one value, and as many pops.
C1_Witness ==
    /\ Len(pushLog) = MaxLen
    /\ Len(popLog) = MaxLen
    /\ pushLog[1] # pushLog[MaxLen]
    /\ last.op = "pop"

\* The elements of stack s, top first, and their number.
ElemsOf(s) == Elems(heap, head[s])
SizeOf(s) == Len(ElemsOf(s))
\* The same in the state after a step.
ElemsOfNext(s) == Elems(heap', head'[s])
\* A step in which `op` was called on s.
Called(op, s) == last'.op = op /\ last'.s = s

\* C2 (refinement of the reference sequence): under any interleaving of calls
\* each live stack holds exactly its reference sequence (push prepends, pop
\* removes the first item), and every pop on a non-empty stack returns the
\* first item of the reference sequence: the last element pushed and not yet
\* popped.
C2_Refines ==
    [][ /\ \A s \in live : ElemsOf(s) = ref[s]
        /\ \A s \in live' : ElemsOfNext(s) = ref'[s]
        /\ \A s \in Stacks :
              (Called("pop", s) /\ ref[s] # << >>) =>
                  /\ last'.ret = Some(Head(ref[s]))
                  /\ ElemsOfNext(s) = Tail(ref[s]) ]_vars

\* C2 witness: a pop has returned an element of a stack that still holds
\* MaxLen - 1 elements, and the element differs from the new top.
C2_Witness ==
    /\ last.op = "pop"
    /\ last.s \in live
    /\ SizeOf(last.s) = MaxLen - 1
    /\ last.ret # Some(Head(ElemsOf(last.s)))

\* C3 (absence on an empty stack): pop, peek and peek_mut on an empty stack
\* return None and leave the stack empty and the heap as it was, so the same
\* holds of every repetition.
C3_EmptyNone ==
    [][ \A s \in Stacks :
          ((Called("pop", s) \/ Called("peek", s) \/ Called("peek_mut", s))
             /\ head[s] = None) =>
              /\ last'.ret = NoneOpt
              /\ head'[s] = None
              /\ ElemsOfNext(s) = << >>
              /\ heap' = heap ]_vars

\* C3 witness: pop has returned None on an empty stack.
C3_Witness ==
    /\ last.op = "pop"
    /\ last.ret = NoneOpt
    /\ last.s \in live
    /\ head[last.s] = None
    /\ heap = << >>

\* C4 (push): after push(x), peek() returns x, the stack is one element
\* larger, the elements it held follow x in their order, and the prior top
\* node is the successor of the new node.
C4_Push ==
    [][ \A s \in Stacks :
          Called("push", s) =>
              /\ peek_(heap', head'[s]).ret = Some(last'.arg)
              /\ Len(ElemsOfNext(s)) = SizeOf(s) + 1
              /\ ElemsOfNext(s) = << last'.arg >> \o ElemsOf(s)
              /\ heap'[head'[s]].next = head[s] ]_vars

\* C4 witness: a push has filled a stack to MaxLen elements with a value that
\* differs from the element below it.
C4_Witness ==
    /\ last.op = "push"
    /\ SizeOf(last.s) = MaxLen
    /\ ElemsOf(last.s)[1] = last.arg
    /\ ElemsOf(last.s)[2] # last.arg

\* C5 (length): the chain of every live stack is as long as the number of
\* elements pushed minus the number popped; a pop on an empty stack leaves the
\* length at zero and a pop on a non-empty stack lowers it by exactly one.
C5_Length ==
    [][ /\ \A s \in live : Cardinality(Chain(heap, head[s])) = net[s]
        /\ \A s \in live' : Cardinality(Chain(heap', head'[s])) = net'[s]
        /\ \A s \in Stacks :
              Called("pop", s) =>
                  Len(ElemsOfNext(s)) = IF SizeOf(s) = 0 THEN 0 ELSE SizeOf(s) - 1 ]_vars

\* C5 witness: a pop has removed an element of a stack that still holds some.
C5_Witness ==
    /\ last.op = "pop"
    /\ last.ret # NoneOpt
    /\ net[last.s] = MaxLen - 1
    /\ SizeOf(last.s) = MaxLen - 1

\* C6 (peek is read-only): peek() leaves the heap, the head and so the element
\* sequence as they were, returns the top element, and a peek that follows
\* returns the same.
C6_PeekFrame ==
    [][ \A s \in Stacks :
          Called("peek", s) =>
              /\ heap' = heap
              /\ head' = head
              /\ ElemsOfNext(s) = ElemsOf(s)
              /\ last'.ret = (IF ElemsOf(s) = << >> THEN NoneOpt ELSE Some(Head(ElemsOf(s))))
              /\ peek_(heap', head'[s]).ret = last'.ret ]_vars

\* C6 witness: peek has returned the top of a stack of MaxLen elements.
C6_Witness ==
    /\ last.op = "peek"
    /\ SizeOf(last.s) = MaxLen
    /\ last.ret = Some(ElemsOf(last.s)[1])
    /\ ElemsOf(last.s)[2] # ElemsOf(last.s)[1]

\* C7 (peek_mut): on a non-empty stack a write of w through peek_mut() changes
\* the top element only: peek() and the next pop() return w, no node is added
\* or removed, and every element below the top keeps its value and place.
C7_PeekMut ==
    [][ \A s \in Stacks :
          (Called("peek_mut", s) /\ head[s] # None) =>
              /\ ElemsOfNext(s) = << last'.arg >> \o Tail(ElemsOf(s))
              /\ peek_(heap', head'[s]).ret = Some(last'.arg)
              /\ pop_(heap', head'[s]).ret = Some(last'.arg)
              /\ head' = head
              /\ DOMAIN heap' = DOMAIN heap
              /\ \A n \in DOMAIN heap : heap'[n].next = heap[n].next ]_vars

\* C7 witness: the top of a stack of MaxLen elements was overwritten with a
\* value that differs from the element below it.
C7_Witness ==
    /\ last.op = "peek_mut"
    /\ last.ret # NoneOpt
    /\ SizeOf(last.s) = MaxLen
    /\ ElemsOf(last.s)[1] = last.arg
    /\ ElemsOf(last.s)[2] # last.arg

\* C8 (deep copy): right after t = s.clone() the two stacks are equal and
\* hold the same elements in chains that share no node, and s is as it was;
\* and no call on one stack (push, pop, a write through peek_mut or iter_mut,
\* or any other) changes the element sequence of another live stack.
C8_DeepCopy ==
    [][ /\ last'.op = "clone" =>
              /\ \A s \in live', t \in live' :
                    /\ eq_(heap', head'[s], head'[t])
                    /\ ElemsOfNext(s) = ElemsOfNext(t)
                    /\ s # t => Chain(heap', head'[s]) \cap Chain(heap', head'[t]) = {}
              /\ \A s \in live : ElemsOfNext(s) = ElemsOf(s)
        /\ \A u \in live \cap live' :
              u # last'.s => ElemsOfNext(u) = ElemsOf(u) ]_vars

\* C8 witness: one stack is a clone of the other, both hold MaxLen elements,
\* and a write through peek_mut has made the top of one differ from the
\* other's.
C8_Witness ==
    /\ live = Stacks
    /\ last.op = "peek_mut"
    /\ SizeOf("A") = MaxLen
    /\ SizeOf("B") = MaxLen
    /\ Tail(ElemsOf("A")) = Tail(ElemsOf("B"))
    /\ Head(ElemsOf("A")) # Head(ElemsOf("B"))
    /\ Head(ElemsOf(last.s)) = last.arg

\* C9 (structural equality): two stacks compare equal exactly when they hold
\* the same sequence of elements, top to bottom, whatever calls produced them;
\* and == returns that.
C9_Equality ==
    /\ \A s \in live, t \in live :
          eq_(heap, head[s], head[t]) <=> (ElemsOf(s) = ElemsOf(t))
    /\ (last.op = "eq" /\ last.s \in live /\ last.arg \in live) =>
          last.ret = << ElemsOf(last.s) = ElemsOf(last.arg) >>

\* C9 witness: two stacks of MaxLen elements, built independently and kept in
\* different cells, have compared equal.
C9_Witness ==
    /\ live = Stacks
    /\ last.op = "eq"
    /\ last.s # last.arg
    /\ last.ret = << TRUE >>
    /\ SizeOf("A") = MaxLen
    /\ ElemsOf("A")[1] # ElemsOf("A")[2]
    /\ Chain(heap, head["A"]) \cap Chain(heap, head["B"]) = {}

\* C10 (the consuming iterator): the IntoIter of a stack of n elements yields
\* the n elements top first (the reverse of the push order), each once, and
\* every next() after the n-th returns None; what it has not yet yielded is
\* still in the stack it owns.
C10_IntoIter ==
    intoIter # << >> =>
        LET it == intoIter[1]
            n == Len(it.src)
            k == Len(it.log)
        IN  /\ \A i \in 1..k :
                  it.log[i] = IF i <= n THEN Some(it.src[i]) ELSE NoneOpt
            /\ Elems(heap, it.head) = SubSeq(it.src, k + 1, n)

\* C10 witness: the IntoIter of a stack of MaxLen elements, not all of one
\* value, was drained and then called MaxIdle more times.
C10_Witness ==
    /\ intoIter # << >>
    /\ Len(intoIter[1].src) = MaxLen
    /\ intoIter[1].src[1] # intoIter[1].src[MaxLen]
    /\ Len(intoIter[1].log) = MaxLen + MaxIdle
    /\ last.op = "IntoIter::next"
    /\ last.ret = NoneOpt

\* The cells of the chain that starts at hd, in the order of the links.
RECURSIVE Cells(_, _)
Cells(h, hd) == IF hd = None THEN << >> ELSE << hd >> \o Cells(h, h[hd].next)

\* C11 (the borrowing iterator): iter() yields a reference to every element of
\* the stack exactly once, top to bottom, then None; neither iter() nor any
\* next() changes the heap or the head, and the element sequence of the stack
\* is the same in every state of the iterator's life.
C11_Iter ==
    [][ /\ iterv' # << >> =>
              LET it == iterv'[1]
                  cells == Cells(heap', head'[it.s])
                  n == Len(cells)
              IN  /\ \A i \in 1..Len(it.log) :
                        /\ it.log[i] = (IF i <= n THEN Some(cells[i]) ELSE NoneOpt)
                        /\ i <= n => heap'[it.log[i][1]].element = ElemsOfNext(it.s)[i]
                  /\ \A i \in 1..n, j \in 1..n : i # j => cells[i] # cells[j]
        /\ last'.op \in {"iter", "Iter::next"} => (heap' = heap /\ head' = head)
        /\ (iterv # << >> /\ iterv' # << >>) =>
              ElemsOfNext(iterv[1].s) = ElemsOf(iterv[1].s) ]_vars

\* C11 witness: an Iter over a stack of MaxLen elements, not all of one value,
\* has yielded all of them and then returned None.
C11_Witness ==
    /\ iterv # << >>
    /\ last.op = "Iter::next"
    /\ last.ret = NoneOpt
    /\ Len(iterv[1].log) = MaxLen + 1
    /\ SizeOf(iterv[1].s) = MaxLen
    /\ ElemsOf(iterv[1].s)[1] # ElemsOf(iterv[1].s)[MaxLen]

\* C12 (iterator correspondence): a full run of iter() yields as many elements
\* as a second full run of iter() on the same stack, and as many as the number
\* of pops that return an element when an equal clone is popped until empty.
C12_Correspondence ==
    /\ \A i \in 1..Len(runs) : runs[i] = runs[1]
    /\ ("B" \in live /\ head["B"] = None /\ runs # << >>) => pops = runs[1]

\* C12 witness: iter() was run twice over a stack of MaxLen elements and the
\* clone was popped until pop returned None.
C12_Witness ==
    /\ Len(runs) = 2
    /\ runs[1] = MaxLen
    /\ "B" \in live
    /\ pops = MaxLen
    /\ last.op = "pop"
    /\ last.s = "B"
    /\ last.ret = NoneOpt

\* The number of elements the incrementing loop has visited and incremented:
\* none before the loop, all after it, and inside the loop those yielded, less
\* the one the body has not yet written.
Visited ==
    IF last.op = "clone" THEN 0
    ELSE IF iterMut = << >> THEN SizeOf("A")
    ELSE Len(iterMut[1].log) - Idle(iterMut[1].log)
         - (IF last.op = "IterMut::next" /\ last.ret # NoneOpt THEN 1 ELSE 0)

\* C13 (mutable iteration): with "B" the clone taken before the loop, a full
\* run of iter_mut() yields a reference to every element once, top to bottom;
\* the increments change exactly the elements visited (each is one more than
\* in the clone, the others are as in the clone), so after the loop a
\* non-empty stack is unequal to the clone; no step of the loop adds, removes
\* or relinks a node, and a run of iter() afterwards counts as many elements
\* as the clone holds.
C13_IterMut ==
    [][ LET AfterStep ==
              /\ "B" \in live =>
                    /\ SizeOf("A") = SizeOf("B")
                    /\ \A i \in 1..SizeOf("A") :
                          ElemsOf("A")[i] =
                             ElemsOf("B")[i] + (IF i <= Visited THEN 1 ELSE 0)
              /\ iterMut # << >> =>
                    LET cells == Cells(heap, head["A"])
                    IN  \A i \in 1..Len(iterMut[1].log) :
                           iterMut[1].log[i] =
                              (IF i <= Len(cells) THEN Some(cells[i]) ELSE NoneOpt)
              /\ last.op = "eq" => last.ret = << SizeOf("B") = 0 >>
              /\ (iterv # << >> /\ Idle(iterv[1].log) > 0) =>
                    Len(iterv[1].log) - Idle(iterv[1].log) = SizeOf("B")
        IN  /\ AfterStep'
            /\ last'.op \in {"iter_mut", "IterMut::next", "IterMut::write", "IterMut::drop"} =>
                  /\ Cells(heap', head'["A"]) = Cells(heap, head["A"])
                  /\ DOMAIN heap' = DOMAIN heap ]_vars

\* C13 witness: the loop has incremented all MaxLen elements of the stack, the
\* stack compared unequal to its clone, and iter() has counted MaxLen elements.
C13_Witness ==
    /\ "B" \in live
    /\ SizeOf("B") = MaxLen
    /\ iterv # << >>
    /\ Len(iterv[1].log) = MaxLen + 1
    /\ last.op = "Iter::next"
    /\ last.ret = NoneOpt
    /\ \A i \in 1..MaxLen : ElemsOf("A")[i] = ElemsOf("B")[i] + 1

\* The rendering of a sequence of elements, top first: `->` and the element's
\* rendered form for each.
RECURSIVE Arrows(_)
Arrows(seq) ==
    IF seq = << >> THEN "" ELSE "->" \o Display_(Head(seq)) \o Arrows(Tail(seq))

\* C14 (rendering): Display produces `head`, then `->` and the rendered element
\* for each element from top to bottom, then `.`: an empty stack renders as
\* `head.` and a stack on which 2, 4 and 6 were pushed as `head->6->4->2.`;
\* rendering leaves the heap and the head as they were.
C14_Display ==
    [][ \A s \in Stacks :
          Called("fmt", s) =>
              /\ last'.ret = << "head" \o Arrows(ElemsOf(s)) \o "." >>
              /\ ElemsOf(s) = << >> => last'.ret = << "head." >>
              /\ ElemsOf(s) = << 6, 4, 2 >> => last'.ret = << "head->6->4->2." >>
              /\ heap' = heap
              /\ head' = head ]_vars

\* C14 witness: the stack on which 2, 4 and 6 were pushed was rendered.
C14_Witness ==
    /\ last.op = "fmt"
    /\ ElemsOf(last.s) = << 6, 4, 2 >>
    /\ ref[last.s] = << 6, 4, 2 >>
    /\ last.ret = << "head->6->4->2." >>

\* C15 (release): dropping a stack releases every node of its chain, and the
\* release is iterative: its nesting depth does not grow with the length of
\* the chain (it is no deeper than for a chain of one node).
C15_IterativeDrop ==
    [][ \A s \in Stacks :
          Called("drop", s) =>
              /\ Chain(heap, head[s]) \cap DOMAIN heap' = {}
              /\ drop_depth_(heap, head[s]) <= 1 ]_vars

\* C16 (laziness): making an iterator (iter(), iter_mut(), or the adaptor
\* iter_mut().map(f)) and dropping it changes neither the heap nor the head;
\* an adaptor that was never stepped leaves the stack as it was when the
\* adaptor was made; and once the adaptor has been stepped j times exactly the
\* first j elements have been given to the closure: every element after them
\* is still what it was when the adaptor was made.
C16_Lazy ==
    [][ /\ last'.op \in {"iter", "iter_mut().map", "Iter::drop", "Map::drop"} =>
              (heap' = heap /\ head' = head)
        /\ last'.op \in {"iter", "iter_mut().map"} =>
              (iterv' # << >> => iterv'[1].log = << >>)
              /\ (iterMut' # << >> => iterMut'[1].log = << >>)
        /\ iterMut' # << >> =>
              LET it == iterMut'[1]
                  j == Len(it.log) - Idle(it.log)
                  now == ElemsOfNext(it.s)
              IN  /\ Len(now) = Len(it.src)
                  /\ \A i \in 1..Len(now) :
                        now[i] = IF i <= j THEN it.f ELSE it.src[i]
        /\ \A s \in Stacks :
              (Called("Map::drop", s) /\ last'.arg = 0) =>
                  ElemsOfNext(s) = iterMut[1].src ]_vars

\* C16 witness: an adaptor over a stack of MaxLen elements was made and
\* dropped without a step.
C16_Witness ==
    /\ last.op = "Map::drop"
    /\ last.arg = 0
    /\ last.s \in live
    /\ SizeOf(last.s) = MaxLen

\* Following `next` from hd reaches None within `fuel` steps.
RECURSIVE Reaches(_, _, _)
Reaches(h, hd, fuel) ==
    IF hd = None THEN TRUE
    ELSE IF fuel = 0 \/ hd \notin DOMAIN h THEN FALSE
    ELSE Reaches(h, h[hd].next, fuel - 1)

\* The owners of node n: the stacks (a live variable, or the stack inside the
\* IntoIter) whose head is n and the nodes whose `next` is n.
Owners(n) ==
    {<< "stack", s >> : s \in {t \in live : head[t] = n}}
        \cup {<< "node", m >> : m \in {k \in DOMAIN heap : heap[k].next = n}}
        \cup (IF intoIter # << >> /\ intoIter[1].head = n
              THEN {<< "stack", "IntoIter" >>} ELSE {})

\* C17 (chain well-formedness): in every reachable state the links of every
\* stack reach None in finitely many steps (no cycle, no dangling link), every
\* allocated node has exactly one owner (a stack for a head node, otherwise
\* the node before it), and no node is in the chains of two stacks or twice
\* in one chain.
C17_WellFormed ==
    /\ \A s \in Stacks : Reaches(heap, head[s], Cardinality(DOMAIN heap))
    /\ intoIter # << >> => Reaches(heap, intoIter[1].head, Cardinality(DOMAIN heap))
    /\ \A n \in DOMAIN heap : Cardinality(Owners(n)) = 1
    /\ \A s \in live, t \in live :
          s # t => Chain(heap, head[s]) \cap Chain(heap, head[t]) = {}
    /\ \A s \in live :
          LET cells == Cells(heap, head[s])
          IN  \A i \in 1..Len(cells), j \in 1..Len(cells) : i # j => cells[i] # cells[j]

\* C17 witness: a stack and its clone were both filled to MaxLen elements by
\* pushes after the clone was made; every cell is in use.
C17_Witness ==
    /\ live = Stacks
    /\ last.op = "push"
    /\ SizeOf("A") = MaxLen
    /\ SizeOf("B") = MaxLen
    /\ Cardinality(DOMAIN heap) = 2 * MaxLen
    /\ ElemsOf("A") # ElemsOf("B")

\* C18 (push then pop is a round trip): with s the stack the driver's pushes
\* have built, a pop of the stack that push(x) leaves returns Some(x) and
\* leaves the elements (and the head) of s; and the pop the driver calls right
\* after its last push returns Some(x) and leaves the stack with the elements
\* it had before that push.
C18_RoundTrip ==
    [][ \A s \in Stacks :
          /\ Called("push", s) =>
                LET r == pop_(heap', head'[s])
                IN  /\ ElemsOf(s) = [i \in 1..Len(pushLog) |-> pushLog[Len(pushLog) + 1 - i]]
                    /\ r.ret = Some(last'.arg)
                    /\ Elems(r.heap, r.head) = ElemsOf(s)
                    /\ r.head = head[s]
          /\ (Called("pop", s) /\ last.op = "push") =>
                LET n == Len(pushLog) - 1
                IN  /\ last'.ret = Some(last.arg)
                    /\ last.arg = pushLog[n + 1]
                    /\ ElemsOfNext(s) = [i \in 1..n |-> pushLog[n + 1 - i]] ]_vars

\* C18 witness: the driver has pushed MaxLen values and popped once, and the
\* value popped differs from the new top.
C18_Witness ==
    /\ last.op = "pop"
    /\ Len(pushLog) = MaxLen
    /\ Len(popLog) = 1
    /\ popLog[1] = Some(pushLog[MaxLen])
    /\ SizeOf(last.s) = MaxLen - 1
    /\ pushLog[MaxLen] # Head(ElemsOf(last.s))

\* C19 (the borrowing iterators terminate and stay exhausted): over a stack of
\* n elements the i-th next() of an Iter or an IterMut returns Some exactly
\* when i <= n: the calls from the (n+1)-th on all return None.
C19_Exhausted ==
    /\ iterv # << >> =>
          \A i \in 1..Len(iterv[1].log) :
              (iterv[1].log[i] # NoneOpt) <=> (i <= SizeOf(iterv[1].s))
    /\ iterMut # << >> =>
          \A i \in 1..Len(iterMut[1].log) :
              (iterMut[1].log[i] # NoneOpt) <=> (i <= SizeOf(iterMut[1].s))

\* C19 witness: an IterMut over a stack of MaxLen elements has returned None
\* MaxIdle times after its MaxLen elements.
C19_Witness ==
    /\ iterMut # << >>
    /\ SizeOf(iterMut[1].s) = MaxLen
    /\ Len(iterMut[1].log) = MaxLen + MaxIdle
    /\ iterMut[1].log[MaxLen] # NoneOpt
    /\ last.op = "IterMut::next"
    /\ last.ret = NoneOpt

\* C20 (exclusive access of the mutable iterator): IterMut::next gives up the
\* cursor's hold on the current node (the cursor is None after take()) before
\* it sets the cursor to the node's successor; in every state the cursor
\* refers to no node whose element has been handed out, and no element is
\* handed out twice.
C20_TakeThenReplace ==
    [][ /\ iterMut' # << >> =>
              LET it == iterMut'[1]
                  some == {i \in 1..Len(it.log) : it.log[i] # NoneOpt}
              IN  /\ \A i \in some : it.next # it.log[i][1]
                  /\ \A i \in some, j \in some : i # j => it.log[i] # it.log[j]
        /\ last'.op = "IterMut::next" =>
              LET r == IterMut_next_(heap, iterMut[1].next)
              IN  /\ r.mid = None
                  /\ r.ret # Some(r.mid)
                  /\ r.ret # NoneOpt => r.next = heap[r.ret[1]].next ]_vars

\* C20 witness: an IterMut over a stack of MaxLen elements has handed out all
\* but the last, and its cursor is on the last node.
C20_Witness ==
    /\ iterMut # << >>
    /\ last.op = "IterMut::next"
    /\ SizeOf(iterMut[1].s) = MaxLen
    /\ Len(iterMut[1].log) = MaxLen - 1
    /\ iterMut[1].next # None
    /\ heap[iterMut[1].next].next = None

====
